---- MODULE Spec2Model ----
(***************************************************************************)
(* Model of rate_limit::Ratelimit<T> (src/src/client.rs): a pool of        *)
(* `count` unit permits kept in a bounded flume channel.  borrow() takes   *)
(* one permit (suspending while the channel is empty) and hands out a      *)
(* RatelimitGuard; dropping the guard spawns a task that sleeps for        *)
(* `wait_time` and then sends one permit back.                             *)
(*                                                                         *)
(* Time is a discrete clock `now`.  Each caller is granted one guard; a    *)
(* caller whose borrow() was cancelled may call again.                     *)
(* Variables marked "history" record when things happened; the code does   *)
(* not read them.                                                          *)
(***************************************************************************)
EXTENDS Integers, Naturals, FiniteSets, Sequences, TLC

\* ---- bounds of the model ----
NumCallers == 3
MaxCount == 2
MaxWait == 2
MaxHold == 1
MaxCallTime == 2
MaxCancels == 2

\* the clock runs long enough for every caller to be served in turn
MaxTime == MaxCallTime + NumCallers * (MaxWait + MaxHold)

\* where guards may be held for ever, the clock stops once a permit taken by
\* the last call has had time to cool down
Horizon == MaxCallTime + MaxWait + 1

Callers == 1..NumCallers

VARIABLES
    status,     \* outcome of Ratelimit::new
    count,      \* capacity of the permit channel (argument `count`)
    wait_time,  \* field wait_time, in clock ticks
    chan,       \* number of () permits queued in the channel
    timers,     \* spawned return tasks: [id, dropped, deadline]
    pc,         \* per caller: position in borrow() / guard lifetime
    guard,      \* per caller: index in grantLog of its guard (0 = none)
    now,        \* the clock
    grantLog,   \* history: time of every grant, in order
    called,     \* history: per suspended caller, time borrow() was called
    cancels,    \* history: number of cancelled borrow() futures
    idleFor,    \* history: ticks since the latest borrow() call, up to wait_time + 1
    quietFor,   \* history: ticks since a guard was last outstanding, likewise
    owed,       \* history: immediate grants left of the burst after a quiet idle period
    owedAny     \* history: immediate grants left of the burst after any idle period

vars == <<status, count, wait_time, chan, timers, pc, guard, now, grantLog,
          called, cancels, idleFor, quietFor, owed, owedAny>>

hist == <<cancels, idleFor, quietFor, owed, owedAny>>
conf == <<status, count, wait_time>>

\* ---- the channel ----

\* faulty variant: the fill loop stops one send short
FillShort(n, len) == IF n = 0 THEN len ELSE len + n - 1

\* flume::bounded(count) followed by `count` sends of (): the queue length
RECURSIVE Fill(_, _)
Fill(n, len) == IF n = 0 THEN len ELSE Fill(n - 1, len + 1)

\* Ratelimit::new(inner, count, wait_time): no argument is checked
new(cnt, wt) ==
    [status |-> "built", count |-> cnt, wait_time |-> wt, chan |-> Fill(cnt, 0)]

\* faulty variant: recv reads the () without taking it out
RecvPeek(c) == c

\* recv takes one () out of the queue
Recv(c) == c - 1

\* faulty variant: the limiter does not keep its own Sender
SendersNoOwn == Cardinality(timers)

\* Sender handles alive: the limiter's own `send` field plus one clone per
\* spawned return task.  recv fails only when this is 0 and the queue is empty.
Senders == 1 + Cardinality(timers)

Holders == {i \in Callers : pc[i] = "holding"}
Waiting == {i \in Callers : pc[i] = "waiting"}

\* ---- the task spawned by Drop ----

\* faulty variant: the sleep is measured from the grant
SpawnFromGrant(g) ==
    [id |-> g, dropped |-> now, deadline |-> grantLog[g] + wait_time]

\* faulty variant: no sleep before the send
SpawnNoSleep(g) ==
    [id |-> g, dropped |-> now, deadline |-> now]

\* faulty variant: the sleep is twice wait_time
SpawnDouble(g) ==
    [id |-> g, dropped |-> now, deadline |-> now + 2 * wait_time]

\* tokio::spawn of sleep(wait_time) then send_async(()), for guard g: `id` and
\* `dropped` remember the guard and the time of its drop
SpawnReturn(g) ==
    [id |-> g, dropped |-> now, deadline |-> now + wait_time]

TypeOK ==
    /\ status \in {"built", "rejected"}
    /\ count \in 0..MaxCount
    /\ wait_time \in 0..MaxWait
    /\ chan \in Nat
    /\ pc \in [Callers -> {"idle", "waiting", "holding", "released",
                           "cancelled", "panicked"}]
    /\ now \in 0..MaxTime

Init ==
    \E cnt \in 0..MaxCount, wt \in 0..MaxWait :
        /\ status = new(cnt, wt).status
        /\ count = new(cnt, wt).count
        /\ wait_time = new(cnt, wt).wait_time
        /\ chan = new(cnt, wt).chan
        /\ timers = {}
        /\ pc = [i \in Callers |-> "idle"]
        /\ guard = [i \in Callers |-> 0]
        /\ now = 0
        /\ grantLog = << >>
        /\ called = [i \in Callers |-> 0]
        /\ cancels = 0
        /\ idleFor = 0
        /\ quietFor = 0
        /\ owed = 0
        /\ owedAny = 0

\* no borrow() call for longer than wait_time
Idle == idleFor > wait_time

\* no borrow() call and no guard outstanding for longer than wait_time
QuietIdle == idleFor > wait_time /\ quietFor > wait_time

\* immediate grants the limiter owes to the next calls
Owed == IF QuietIdle THEN count ELSE owed
OwedAny == IF Idle THEN count ELSE owedAny

\* the caller receives a RatelimitGuard
Grant(i) ==
    /\ chan' = Recv(chan)
    /\ pc' = [pc EXCEPT ![i] = "holding"]
    /\ grantLog' = Append(grantLog, now)
    /\ guard' = [guard EXCEPT ![i] = Len(grantLog) + 1]
    /\ quietFor' = 0

\* borrow(): first poll of recv_async().await.unwrap()
Borrow(i) ==
    /\ status = "built"
    /\ pc[i] \in {"idle", "cancelled"}
    \* callers are interchangeable: their index is the order of their calls
    /\ \A j \in 1..(i - 1) : pc[j] # "idle"
    /\ now <= MaxCallTime
    /\ IF chan > 0
          THEN /\ Grant(i)
               /\ UNCHANGED called
          ELSE /\ pc' = [pc EXCEPT ![i] =
                            IF Senders = 0 THEN "panicked" ELSE "waiting"]
               /\ called' = [called EXCEPT ![i] = now]
               /\ UNCHANGED <<chan, grantLog, guard, quietFor>>
    /\ idleFor' = 0
    /\ owed' = IF Owed > 0 THEN Owed - 1 ELSE 0
    /\ owedAny' = IF OwedAny > 0 THEN OwedAny - 1 ELSE 0
    /\ UNCHANGED <<conf, timers, now, cancels>>

\* borrow(): a suspended recv_async() is woken and finds a permit
Resume(i) ==
    /\ pc[i] = "waiting"
    /\ chan > 0
    /\ Grant(i)
    /\ called' = [called EXCEPT ![i] = 0]
    /\ UNCHANGED <<conf, timers, now, cancels, idleFor, owed, owedAny>>

\* faulty variant: a cancelled borrow() takes a permit with it
CancelConsumes(i) ==
    /\ pc[i] = "waiting"
    /\ cancels < MaxCancels
    /\ pc' = [pc EXCEPT ![i] = "cancelled"]
    /\ called' = [called EXCEPT ![i] = 0]
    /\ cancels' = cancels + 1
    /\ chan' = IF chan > 0 THEN chan - 1 ELSE chan
    /\ UNCHANGED <<conf, timers, guard, now, grantLog, idleFor, quietFor,
                   owed, owedAny>>

\* the borrow() future is dropped while suspended
Cancel(i) ==
    /\ pc[i] = "waiting"
    /\ cancels < MaxCancels
    /\ pc' = [pc EXCEPT ![i] = "cancelled"]
    /\ called' = [called EXCEPT ![i] = 0]
    /\ cancels' = cancels + 1
    /\ UNCHANGED <<conf, chan, timers, guard, now, grantLog, idleFor,
                   quietFor, owed, owedAny>>

\* faulty variant: the drop spawns no return task
DropNoReturn(i) ==
    /\ pc[i] = "holding"
    /\ pc' = [pc EXCEPT ![i] = "released"]
    /\ guard' = [guard EXCEPT ![i] = 0]
    /\ UNCHANGED <<conf, chan, timers, now, grantLog, called, hist>>

\* Drop for RatelimitGuard: spawn the sleeping return task
Drop(i) ==
    /\ pc[i] = "holding"
    /\ pc' = [pc EXCEPT ![i] = "released"]
    /\ timers' = timers \cup {SpawnReturn(guard[i])}
    /\ guard' = [guard EXCEPT ![i] = 0]
    /\ UNCHANGED <<conf, chan, now, grantLog, called, hist>>

\* faulty variant: the task sends two permits
SendTwice(c) == c + 2

\* send_async(()) puts one () into the queue
Send(c) == c + 1

\* the spawned task: sleep is over, send_async(()) finds room in the channel
Return(t) ==
    /\ t \in timers
    /\ now >= t.deadline
    /\ chan < count
    /\ chan' = Send(chan)
    /\ timers' = timers \ {t}
    /\ UNCHANGED <<conf, pc, guard, now, grantLog, called, hist>>

\* tasks that can run now: a return whose sleep is over, a woken borrow
Ready ==
    \/ \E t \in timers : now >= t.deadline /\ chan < count
    \/ \E i \in Callers : pc[i] = "waiting" /\ chan > 0

\* the tick counters stop at wait_time + 1: only "longer than wait_time" matters
Min(a, b) == IF a <= b THEN a ELSE b

Advance(limit) ==
    /\ now < limit
    /\ now' = now + 1
    /\ idleFor' = Min(idleFor + 1, wait_time + 1)
    /\ quietFor' = IF Holders # {} THEN 0 ELSE Min(quietFor + 1, wait_time + 1)
    /\ UNCHANGED <<conf, chan, timers, pc, guard, grantLog, called, cancels,
                   owed, owedAny>>

\* the clock advances; tasks may lag behind it
TickLax == Advance(Horizon)

\* the clock advances once every task that can run has run
Tick == ~Ready /\ Advance(Horizon)

\* as Tick, and every guard is dropped within MaxHold of its grant
TickHold ==
    /\ \A i \in Holders : now < grantLog[guard[i]] + MaxHold
    /\ ~Ready
    /\ Advance(MaxTime)

Ops ==
    \/ \E i \in Callers : Borrow(i)
    \/ \E i \in Callers : Resume(i)
    \/ \E i \in Callers : Cancel(i)
    \/ \E i \in Callers : Drop(i)
    \/ \E t \in timers : Return(t)

Next == Ops \/ TickLax
NextPrompt == Ops \/ Tick
NextHold == Ops \/ TickHold

\* any scheduling
Spec == Init /\ [][Next]_vars

\* prompt scheduling: ready tasks run before the clock moves
PromptSpec == Init /\ [][NextPrompt]_vars

\* prompt scheduling, guards released within MaxHold, tasks and clock fair
FairSpec ==
    /\ Init
    /\ [][NextHold]_vars
    /\ WF_vars(TickHold)
    /\ WF_vars(\E i \in Callers : Resume(i))
    /\ WF_vars(\E i \in Callers : Drop(i))
    /\ WF_vars(\E t \in timers : Return(t))

\* the arguments of new() that the data model allows
ValidArgs == count >= 1 /\ wait_time >= 1

\* ---- C1 ----
GrantsInWindow(a) ==
    {b \in 1..Len(grantLog) :
        grantLog[a] <= grantLog[b] /\ grantLog[b] < grantLog[a] + wait_time}

\* C1: capacity bound.  Starting at any grant, the interval of length
\* wait_time that begins at it holds at most `count` grants.
C1_CapacityBound ==
    \A a \in 1..Len(grantLog) : Cardinality(GrantsInWindow(a)) <= count

\* a full window followed by the next grant exactly one window later
C1_Witness ==
    /\ count = 2
    /\ wait_time = 2
    /\ grantLog = <<0, 0, 2>>

\* ---- C2 ----
Ceil(n, k) == (n + k - 1) \div k

WaitedFor(i) == now - called[i]

\* C2 as stated: no caller waits longer than ceil(N/K) * W for its grant.
C2_WaitBoundFromGrant ==
    \A i \in Waiting :
        ValidArgs => WaitedFor(i) <= Ceil(NumCallers, count) * wait_time

\* C2 amended: every suspended borrow() ends (granted, or cancelled by its
\* caller), and with every guard dropped within MaxHold of its grant no caller
\* waits longer than ceil(N/K) * (W + MaxHold).
C2_Progress ==
    /\ \A i \in Callers :
          (count >= 1 /\ pc[i] = "waiting") ~> (pc[i] \in {"holding", "cancelled"})
    /\ [](\A i \in Waiting :
            count >= 1 =>
              WaitedFor(i) <= Ceil(NumCallers, count) * (wait_time + MaxHold))

\* a caller that has waited longer than ceil(N/K) * W and is still served
C2_Witness ==
    /\ count = 1
    /\ wait_time = 1
    /\ \E i \in Waiting : WaitedFor(i) > Ceil(NumCallers, count) * wait_time

\* ---- C3 ----
Cancelled(i) == pc[i] = "waiting" /\ pc'[i] = "cancelled"

\* C3: cancelling a suspended borrow() leaves the permits in the channel, the
\* pending returns and the guards as they were; and whatever was cancelled, a
\* caller suspended while no guard is out is waiting for a permit that is in
\* the channel or comes back within wait_time of its drop.
C3_CancelNeutral ==
    /\ [][\A i \in Callers :
            Cancelled(i) =>
              chan' = chan /\ timers' = timers /\ Holders' = Holders]_vars
    /\ []((count >= 1 /\ Holders = {} /\ Waiting # {}) =>
            \/ chan > 0
            \/ \E t \in timers : now <= t.dropped + wait_time)

\* count + 1 borrows cancelled while the only permit was out, then a grant
C3_Witness ==
    /\ count = 1
    /\ cancels = count + 1
    /\ pc[1] = "released"
    /\ pc[2] = "holding"
    /\ pc[3] = "idle"

\* ---- C4 ----
\* C4: borrow() never fails.  No caller reaches the panic of unwrap(), and
\* the channel is never empty with no sender left.
C4_BorrowNeverFails ==
    /\ \A i \in Callers : pc[i] # "panicked"
    /\ chan = 0 => Senders > 0

\* a borrow suspended on an empty channel with no return task pending
C4_Witness ==
    /\ count >= 1
    /\ chan = 0
    /\ timers = {}
    /\ Waiting # {}

\* ---- C5 ----
Calls == Len(grantLog) + cancels + Cardinality(Waiting)

CallStep(i) ==
    /\ pc[i] \in {"idle", "cancelled"}
    /\ pc'[i] \notin {"idle", "cancelled"}

\* C5: initial burst.  Each of the first `count` calls of borrow() on a new
\* limiter is granted on the spot, whenever it comes.
C5_InitialBurst ==
    [][\A i \in Callers :
          (CallStep(i) /\ Calls < count) =>
            pc'[i] = "holding" /\ grantLog' = Append(grantLog, now)]_vars

\* two calls at time 0 on a limiter of capacity 2, both granted at time 0
C5_Witness ==
    /\ count = 2
    /\ now = 0
    /\ grantLog = <<0, 0>>
    /\ pc[1] = "holding"
    /\ pc[2] = "holding"

\* ---- C6 ----
\* C6 as stated: after more than wait_time without a borrow() call, the next
\* `count` calls are granted on the spot.
C6_IdleBurstAny ==
    [][\A i \in Callers :
          (ValidArgs /\ CallStep(i) /\ OwedAny > 0) => pc'[i] = "holding"]_vars

\* C6 amended: after more than wait_time without a borrow() call and without
\* a guard outstanding, the next `count` calls are granted on the spot.
C6_IdleBurst ==
    [][\A i \in Callers :
          (CallStep(i) /\ Owed > 0) => pc'[i] = "holding"]_vars

\* one use at time 0, nothing for 2 > wait_time, then a burst of 2: its first
\* call is granted at once and one more grant is owed
C6_Witness ==
    /\ count = 2
    /\ wait_time = 1
    /\ now = 2
    /\ grantLog = <<0, 2>>
    /\ owed = 1

\* ---- C7 ----
\* C7: guards outstanding plus permits in the channel never exceed `count`,
\* and the channel alone never holds more than `count`.
C7_NoOverCredit ==
    /\ chan + Cardinality(Holders) <= count
    /\ chan <= count

\* every permit has been used and returned: the channel is full again
C7_Witness ==
    /\ count = 2
    /\ chan = count
    /\ Len(grantLog) >= count
    /\ Holders = {}
    /\ timers = {}

\* ---- C8 ----
\* C8 as stated: the permit comes back once wait_time has elapsed from the
\* moment it was taken.
C8_ReturnFromGrant ==
    ValidArgs => \A t \in timers : t.deadline = grantLog[t.id] + wait_time

\* C8 amended: each dropped guard has exactly one return task, due wait_time
\* after the drop, and a return puts exactly one permit into the channel.
C8_ReturnFromDrop ==
    /\ [](\A t \in timers :
            /\ t.deadline = t.dropped + wait_time
            /\ \A u \in timers : u.id = t.id => u = t)
    /\ [][/\ \A i \in Callers :
               (pc[i] = "holding" /\ pc'[i] = "released") =>
                 Cardinality(timers') = Cardinality(timers) + 1
          /\ timers' # timers /\ timers' \subseteq timers =>
               /\ Cardinality(timers') = Cardinality(timers) - 1
               /\ chan' = chan + 1]_vars

\* a guard held for some time before its drop: the two clocks differ
C8_Witness ==
    /\ wait_time >= 1
    /\ \E t \in timers : t.dropped > grantLog[t.id]

\* ---- C9 ----
\* C9: the cooldown counts from the drop.  A permit goes back into the
\* channel exactly wait_time after its guard was dropped, one per drop: no
\* return is early, and the clock never passes a return that is due.
C9_CooldownFromDrop ==
    /\ [](\A t \in timers : now <= t.dropped + wait_time)
    /\ [][\A t \in timers :
            t \notin timers' =>
              /\ now = t.dropped + wait_time
              /\ chan' = chan + 1
              /\ timers' = timers \ {t}]_vars

\* the only permit, held for a while, is back wait_time after its drop
C9_Witness ==
    /\ count = 1
    /\ wait_time = 2
    /\ Len(grantLog) = 1
    /\ now - wait_time > grantLog[1]
    /\ quietFor = wait_time
    /\ timers = {}
    /\ chan = 1

\* ---- C10 ----
\* C10: new() with count = 0 or wait_time = 0 is rejected.
C10_RejectsZero ==
    (count = 0 \/ wait_time = 0) => status = "rejected"

\* ---- C11 ----
Granted(i) == pc[i] # "holding" /\ pc'[i] = "holding"

\* C11: consumption is serialized.  A grant takes exactly one permit out of
\* the channel and gives a guard to exactly one caller; every other suspended
\* caller stays suspended, and no two guards stand for the same grant.
C11_SerializedConsumption ==
    /\ [](\A i, j \in Holders : guard[i] = guard[j] => i = j)
    /\ [][\A i \in Callers :
            Granted(i) =>
              /\ chan >= 1
              /\ chan' = chan - 1
              /\ Holders' = Holders \cup {i}
              /\ Len(grantLog') = Len(grantLog) + 1
              /\ \A j \in Waiting \ {i} : pc'[j] = "waiting"]_vars

\* the only permit came back after the last call could be made, with two
\* callers suspended: one of them holds the guard, the other still waits
C11_Witness ==
    /\ count = 1
    /\ cancels = 0
    /\ Len(grantLog) = 2
    /\ grantLog[2] > MaxCallTime
    /\ Cardinality(Holders) = 1
    /\ Cardinality(Waiting) = 1
    /\ chan = 0

\* ---- C12 ----
\* C12: permit conservation.  Permits in the channel, guards held and return
\* tasks pending add up to `count`; so a pending return always finds room in
\* the channel.
C12_Conservation ==
    /\ chan + Cardinality(Holders) + Cardinality(timers) = count
    /\ timers # {} => chan < count

\* one permit in a guard, the other in a return task whose sleep is over
C12_Witness ==
    /\ count = 2
    /\ chan = 0
    /\ Cardinality(Holders) = 1
    /\ \E t \in timers : now >= t.deadline /\ wait_time >= 1

====
